---- MODULE Spec2Model ----
(***************************************************************************)
(* Model of excel_database (src/src/lib.rs): one sheet of a workbook file  *)
(* cached in memory as Vec<Row>, with select / insert / update / delete /  *)
(* add_column / remove_column / add_sheet and a full save of the active    *)
(* sheet after every mutation.                                             *)
(*                                                                         *)
(* A Row (HashMap<String, CellValue>) is modelled as a sequence of         *)
(* <<column, value>> pairs with distinct columns: the sequence order is    *)
(* the iteration order of that HashMap instance, which keys() exposes to   *)
(* save_data.  Rows are compared as maps (RowMap), as HashMap == does.     *)
(***************************************************************************)
EXTENDS Integers, Sequences, FiniteSets, TLC

\* ---------------------------------------------------------------- bounds
MaxRows == 2          \* insert is disabled once the cache holds this many rows
MaxFileData == 1      \* data rows of a worksheet in the initial file
MaxWidth == 2         \* header cells of a worksheet in the initial file
MaxFailures == 1      \* I/O failures injected in one behaviour

\* ------------------------------------------------------------- universes
Cols == {"a", "b"}                 \* column names used by callers and headers
Vals == {"", "x"}                  \* text values used by callers
NoValue == "<none>"                \* a raw cell whose get_value() is None
FileVals == {"x", NoValue}         \* raw data cells of the initial file
SheetNames == {"Sheet1", "Sheet2"}
Handles == {"A", "B"}

\* ------------------------------------------------------------- Option<T>
None == << >>
Some(x) == << x >>

\* ---------------------------------------------------- CellValue <-> raw
\* impl From<UCellValue> for CellValue: get_value().unwrap_or_default()
FromU(raw) == IF raw = NoValue THEN "" ELSE raw

\* impl Into<UCellValue> for CellValue: UCellValue::from(s)
ToU(cv) == cv

\* ------------------------------------------------------- Row (HashMap)
Range(s) == {s[i] : i \in DOMAIN s}

Keys(row) == {row[i][1] : i \in DOMAIN row}

\* keys(): the columns in this map's iteration order
KeySeq(row) == [i \in DOMAIN row |-> row[i][1]]

ContainsKey(row, k) == k \in Keys(row)

\* get(k) on a row that has k
Get(row, k) == row[CHOOSE i \in DOMAIN row : row[i][1] = k][2]

\* the row as HashMap equality sees it
RowMap(row) == [k \in Keys(row) |-> Get(row, k)]

RowMaps(rows) == [i \in DOMAIN rows |-> RowMap(rows[i])]

\* all sequences of length n over S without repetition
RECURSIVE Arrangements(_, _)
Arrangements(S, n) ==
    IF n = 0 THEN {<< >>}
    ELSE UNION {{Append(t, x) : x \in S \ Range(t)} : t \in Arrangements(S, n - 1)}

\* every HashMap instance that holds the map m: one per iteration order
Orderings(m) ==
    {[i \in DOMAIN ks |-> <<ks[i], m[ks[i]]>>] :
        ks \in Arrangements(DOMAIN m, Cardinality(DOMAIN m))}

\* insert(k, v): an existing key is overwritten in place; a new key lands
\* anywhere in the iteration order (the table may rehash)
MapInsert(row, k, v) ==
    IF ContainsKey(row, k)
    THEN {[i \in DOMAIN row |-> IF row[i][1] = k THEN <<k, v>> ELSE row[i]]}
    ELSE Orderings([c \in Keys(row) \cup {k} |-> IF c = k THEN v ELSE Get(row, c)])

\* (mutant) the test is inverted: only k is kept
MapRemove_Inverted(row, k) == SelectSeq(row, LAMBDA e : e[1] = k)

\* remove(k): the other entries keep their places
MapRemove(row, k) == SelectSeq(row, LAMBDA e : e[1] # k)

\* the sequences whose i-th element is drawn from sets[i]
RECURSIVE Product(_)
Product(sets) ==
    IF Len(sets) = 0 THEN {<< >>}
    ELSE {<<x>> \o t : x \in Head(sets), t \in Product(Tail(sets))}

\* ------------------------------------------------ Worksheet / workbook
\* Worksheet::new(): no cells.  A worksheet maps <<col, row>> to a raw value.
NewWorksheet == << >>

\* add_cell(Cell::new(col, row, value))
AddCell(ws, col, r, raw) ==
    [c \in DOMAIN ws \cup {<<col, r>>} |-> IF c = <<col, r>> THEN raw ELSE ws[c]]

\* the ascending sequence of the elements of a finite set of integers
RECURSIVE SortedSeq(_)
SortedSeq(S) ==
    IF S = {} THEN << >>
    ELSE LET m == CHOOSE x \in S : \A y \in S : x <= y
         IN <<m>> \o SortedSeq(S \ {m})

\* get_row_iter() / get_cell_iter(): the rows that hold cells, top to
\* bottom, each as its cells from left to right
RowIter(ws) ==
    LET rowIdx == SortedSeq({c[2] : c \in DOMAIN ws})
        CellsOf(r) == LET cs == SortedSeq({c[1] : c \in {d \in DOMAIN ws : d[2] = r}})
                      IN [j \in DOMAIN cs |-> ws[<<cs[j], r>>]]
    IN [i \in DOMAIN rowIdx |-> CellsOf(rowIdx[i])]

\* a worksheet holding the dense rows rs (used to build the initial file)
WorksheetOfRows(rs) ==
    [c \in {<<j, i>> : i \in DOMAIN rs, j \in 1..MaxWidth + 1} \cap
           UNION {{<<j, i>> : j \in DOMAIN rs[i]} : i \in DOMAIN rs}
        |-> rs[c[2]][c[1]]]

\* a workbook is the sequence of its sheets, [name, ws]
HasSheet(book, name) == \E i \in DOMAIN book : book[i].name = name

GetSheetByName(book, name) ==
    book[CHOOSE i \in DOMAIN book : book[i].name = name].ws

RemoveSheetByName(book, name) == SelectSeq(book, LAMBDA s : s.name # name)

AddWorksheet(book, name, ws) == Append(book, [name |-> name, ws |-> ws])

GetSheetNames(book) == [i \in DOMAIN book |-> book[i].name]

\* ------------------------------------------------------------ load_data
\* lines 118-124: the first row's cells as header names
Headers(rows) == [j \in DOMAIN rows[1] |-> FromU(rows[1][j])]

\* (mutant) a header beyond the end of the row gets no entry
LoadedMap_NoFill(headers, row_vals) ==
    [k \in {headers[j] : j \in DOMAIN headers \cap DOMAIN row_vals} |->
        LET col_idx == CHOOSE j \in DOMAIN headers \cap DOMAIN row_vals :
                          /\ headers[j] = k
                          /\ \A l \in DOMAIN headers \cap DOMAIN row_vals :
                                headers[l] = k => l <= j
        IN FromU(row_vals[col_idx])]

\* lines 129-136: the map built for one data row; a later duplicate header
\* overwrites an earlier one, a missing cell becomes empty text
LoadedMap(headers, row_vals) ==
    [k \in Range(headers) |->
        LET col_idx == CHOOSE j \in DOMAIN headers :
                          headers[j] = k /\ \A l \in DOMAIN headers : headers[l] = k => l <= j
        IN IF col_idx \in DOMAIN row_vals THEN FromU(row_vals[col_idx]) ELSE ""]

\* (mutant) a sheet without rows is not refused
LoadErr_NoRowCheck(book, sheet_name) ==
    IF ~HasSheet(book, sheet_name) THEN "SheetNotFound" ELSE "ok"

\* load_data: the error, or the set of caches it can build (the loaded maps
\* are fixed, the iteration order of each fresh HashMap is not)
LoadErr(book, sheet_name) ==
    IF ~HasSheet(book, sheet_name) THEN "SheetNotFound"
    ELSE IF Len(RowIter(GetSheetByName(book, sheet_name))) = 0 THEN "NoHeaders"
    ELSE "ok"

LoadedMaps(book, sheet_name) ==
    LET rows == RowIter(GetSheetByName(book, sheet_name))
        headers == Headers(rows)
    IN [i \in 1..(Len(rows) - 1) |-> LoadedMap(headers, rows[i + 1])]

LoadData(book, sheet_name) ==
    LET maps == LoadedMaps(book, sheet_name)
    IN Product([i \in DOMAIN maps |-> Orderings(maps[i])])

\* ------------------------------------------------------------ save_data
\* lines 170-173: the header row
RECURSIVE WriteHeaders(_, _, _)
WriteHeaders(ws, headers, col_idx) ==
    IF col_idx > Len(headers) THEN ws
    ELSE WriteHeaders(AddCell(ws, col_idx, 1, ToU(headers[col_idx])), headers, col_idx + 1)

\* (mutant) no cell is written for a column the row lacks
RECURSIVE WriteRow_NoFill(_, _, _, _, _)
WriteRow_NoFill(ws, headers, row_map, excel_row, col_idx) ==
    IF col_idx > Len(headers) THEN ws
    ELSE LET header == headers[col_idx]
         IN WriteRow_NoFill(IF ContainsKey(row_map, header)
                            THEN AddCell(ws, col_idx, excel_row, ToU(Get(row_map, header)))
                            ELSE ws,
                            headers, row_map, excel_row, col_idx + 1)

\* lines 178-186: one data row against the header list
RECURSIVE WriteRow(_, _, _, _, _)
WriteRow(ws, headers, row_map, excel_row, col_idx) ==
    IF col_idx > Len(headers) THEN ws
    ELSE LET header == headers[col_idx]
             value == IF ContainsKey(row_map, header) THEN Get(row_map, header) ELSE ""
         IN WriteRow(AddCell(ws, col_idx, excel_row, ToU(value)),
                     headers, row_map, excel_row, col_idx + 1)

\* (mutant) the data rows start at Excel row 1, over the header row
RECURSIVE WriteRows_OverHeader(_, _, _, _)
WriteRows_OverHeader(ws, headers, data, row_idx) ==
    IF row_idx > Len(data) THEN ws
    ELSE WriteRows_OverHeader(WriteRow(ws, headers, data[row_idx], row_idx, 1),
                              headers, data, row_idx + 1)

\* lines 176-187: all data rows, from Excel row 2
RECURSIVE WriteRows(_, _, _, _)
WriteRows(ws, headers, data, row_idx) ==
    IF row_idx > Len(data) THEN ws
    ELSE WriteRows(WriteRow(ws, headers, data[row_idx], row_idx + 1, 1),
                   headers, data, row_idx + 1)

\* lines 157-187: the worksheet save_data builds from the cache
SheetImage(data) ==
    IF Len(data) = 0 THEN NewWorksheet
    ELSE LET headers == KeySeq(data[1])
         IN WriteRows(WriteHeaders(NewWorksheet, headers, 1), headers, data, 1)

\* (mutant) the has_sheet check is missing
SaveErr_NoSheetCheck(book, sheet_name, fail) ==
    IF fail \in {"read", "write"} THEN "Io" ELSE "ok"

\* save_data on the book read from the file; fail is the I/O outcome:
\* "read" (load_workbook fails), "write" (save_as fails) or "none"
SaveErr(book, sheet_name, fail) ==
    IF fail = "read" THEN "Io"
    ELSE IF ~HasSheet(book, sheet_name) THEN "SheetNotFound"
    ELSE IF fail = "write" THEN "Io"
    ELSE "ok"

\* (mutant) the sheet on disk is not removed: the new one comes after it
SaveData_NoRemove(book, sheet_name, data, fail) ==
    IF SaveErr(book, sheet_name, fail) # "ok" THEN book
    ELSE AddWorksheet(book, sheet_name, SheetImage(data))

\* (mutant) the worksheet is written into a new book, not the one read
SaveData_FreshBook(book, sheet_name, data, fail) ==
    IF SaveErr(book, sheet_name, fail) # "ok" THEN book
    ELSE AddWorksheet(<< >>, sheet_name, SheetImage(data))

\* lines 150-191: the book save_data leaves in the file
SaveData(book, sheet_name, data, fail) ==
    IF SaveErr(book, sheet_name, fail) # "ok" THEN book
    ELSE AddWorksheet(RemoveSheetByName(book, sheet_name), sheet_name, SheetImage(data))

Fails == {"none", "read", "write"}

\* ---------------------------------------------------------------- select
\* (mutant) a row that lacks a queried column is not skipped
RECURSIVE SelectMatch_MissingOk(_, _, _)
SelectMatch_MissingOk(row, q, i) ==
    IF i > Len(q) THEN TRUE
    ELSE IF ContainsKey(row, q[i][1])
         THEN IF Get(row, q[i][1]) # q[i][2] THEN FALSE
              ELSE SelectMatch_MissingOk(row, q, i + 1)
         ELSE SelectMatch_MissingOk(row, q, i + 1)

\* lines 216-224: the loop over the query's pairs, `continue 'outer` on the
\* first pair the row does not satisfy
RECURSIVE SelectMatch(_, _, _)
SelectMatch(row, q, i) ==
    IF i > Len(q) THEN TRUE
    ELSE IF ContainsKey(row, q[i][1])
         THEN IF Get(row, q[i][1]) # q[i][2] THEN FALSE ELSE SelectMatch(row, q, i + 1)
         ELSE FALSE

\* lines 213-226: result collects the matching rows in cache order
RECURSIVE SelectRows(_, _, _)
SelectRows(data, q, i) ==
    IF i > Len(data) THEN << >>
    ELSE (IF SelectMatch(data[i], q, 1) THEN <<data[i]>> ELSE << >>)
         \o SelectRows(data, q, i + 1)

\* (mutant) the empty result is returned as Some(vec![])
Select_EmptyVec(data, query) ==
    LET q == IF query = None THEN << >> ELSE query[1]
    IN Some(SelectRows(data, q, 1))

\* select(query): query None stands for the empty map
Select(data, query) ==
    LET q == IF query = None THEN << >> ELSE query[1]
        result == SelectRows(data, q, 1)
    IN IF Len(result) = 0 THEN None ELSE Some(result)

\* ------------------------------------------------------ get_column_value
\* (mutant) a qualifying row without target_column is passed over
RECURSIVE GetColumnValue_SkipLacking(_, _, _, _, _)
GetColumnValue_SkipLacking(data, search_column, search_value, target_column, i) ==
    IF i > Len(data) THEN None
    ELSE IF /\ ContainsKey(data[i], search_column)
            /\ Get(data[i], search_column) = search_value
            /\ ContainsKey(data[i], target_column)
         THEN Some(Get(data[i], target_column))
         ELSE GetColumnValue_SkipLacking(data, search_column, search_value, target_column, i + 1)

\* lines 240-247: the loop returns at the first row whose search_column
\* equals search_value
RECURSIVE GetColumnValue(_, _, _, _, _)
GetColumnValue(data, search_column, search_value, target_column, i) ==
    IF i > Len(data) THEN None
    ELSE IF ContainsKey(data[i], search_column) /\ Get(data[i], search_column) = search_value
         THEN IF ContainsKey(data[i], target_column)
              THEN Some(Get(data[i], target_column))
              ELSE None
         ELSE GetColumnValue(data, search_column, search_value, target_column, i + 1)

\* ---------------------------------------------------------------- update
\* lines 269-280: is_match
RECURSIVE UpdateMatch(_, _, _)
UpdateMatch(row, query, i) ==
    IF i > Len(query) THEN TRUE
    ELSE IF ContainsKey(row, query[i][1])
         THEN IF Get(row, query[i][1]) # query[i][2] THEN FALSE
              ELSE UpdateMatch(row, query, i + 1)
         ELSE FALSE

\* lines 282-284: row.insert(u_key, u_val) for every pair of update_data
RECURSIVE Merge(_, _, _)
Merge(row, update_data, i) ==
    IF i > Len(update_data) THEN {row}
    ELSE UNION {Merge(r, update_data, i + 1) :
                   r \in MapInsert(row, update_data[i][1], update_data[i][2])}

\* (mutant) the loop stops after the first matching row
UpdateRows_FirstOnly(data, query, update_data) ==
    Product([i \in DOMAIN data |->
                IF /\ UpdateMatch(data[i], query, 1)
                   /\ \A j \in 1..(i - 1) : ~UpdateMatch(data[j], query, 1)
                THEN Merge(data[i], update_data, 1)
                ELSE {data[i]}])

\* (mutant) is_match is not consulted: every row is patched
UpdateRows_EveryRow(data, query, update_data) ==
    Product([i \in DOMAIN data |-> Merge(data[i], update_data, 1)])

\* lines 268-286: the caches update can leave
UpdateRows(data, query, update_data) ==
    Product([i \in DOMAIN data |->
                IF UpdateMatch(data[i], query, 1)
                THEN Merge(data[i], update_data, 1)
                ELSE {data[i]}])

\* ---------------------------------------------------------------- delete
\* lines 297-308: the retain closure, TRUE keeps the row
RECURSIVE DeleteKeep(_, _, _)
DeleteKeep(row, query, i) ==
    IF i > Len(query) THEN FALSE
    ELSE IF ContainsKey(row, query[i][1])
         THEN IF Get(row, query[i][1]) # query[i][2] THEN TRUE
              ELSE DeleteKeep(row, query, i + 1)
         ELSE TRUE

\* (mutant) only the first matching row is dropped
DeleteRows_FirstOnly(data, query) ==
    LET hits == {i \in DOMAIN data : ~DeleteKeep(data[i], query, 1)}
    IN IF hits = {} THEN data
       ELSE LET first == CHOOSE i \in hits : \A j \in hits : i <= j
            IN SubSeq(data, 1, first - 1) \o SubSeq(data, first + 1, Len(data))

DeleteRows(data, query) == SelectSeq(data, LAMBDA row : DeleteKeep(row, query, 1))

\* ------------------------------------------------- add_column / remove_column
\* (mutant) insert instead of entry().or_insert_with(): a value is overwritten
AddColumnRows_Overwrite(data, column_name, default_value) ==
    LET default_val == IF default_value = None THEN "" ELSE default_value[1]
    IN Product([i \in DOMAIN data |-> MapInsert(data[i], column_name, default_val)])

\* lines 408-412: entry(column_name).or_insert_with(default_val)
AddColumnRows(data, column_name, default_value) ==
    LET default_val == IF default_value = None THEN "" ELSE default_value[1]
    IN Product([i \in DOMAIN data |->
                   IF ContainsKey(data[i], column_name)
                   THEN {data[i]}
                   ELSE MapInsert(data[i], column_name, default_val)])

\* lines 423-425
RemoveColumnRows(data, column_name) ==
    [i \in DOMAIN data |-> MapRemove(data[i], column_name)]

\* ------------------------------------------------------------------ state
VARIABLES
    file,      \* the workbook stored at file_path
    db,        \* per handle: whether it was constructed, its sheet_name and data
    last,      \* the call that just returned: arguments, result, state before it
    failures   \* I/O failures injected so far

vars == <<file, db, last, failures>>

NoHandle == [open |-> FALSE, sheet_name |-> "", data |-> << >>]

Mutating == {"insert", "update", "delete", "add_column", "remove_column"}

\* no call has returned since the caller dropped the last result
NoCall == [op |-> "idle", h |-> "A", arg |-> << >>, arg2 |-> << >>, res |-> "ok",
           out |-> << >>, io |-> "none", pre |-> << >>, prefile |-> << >>]

Idle == [NoCall EXCEPT !.op = "idle"] @@ [prev |-> NoCall]

\* the caller issues a call when it holds no result, or directly after the
\* call it follows up on: the same update again, remove_column after
\* add_column of that column, select after delete with that query, select
\* of everything after insert, a
\* mutating call on the handle just constructed, new again after new failed,
\* is_sheet_exists or add_sheet after add_sheet of that name; or a mutating call on
\* another handle right after an insert was saved or a sheet was added
FollowsUp(op, h, arg, arg2) ==
    \/ /\ last.h = h
       /\ \/ op = "update" /\ last.op = "update" /\ last.arg = arg /\ last.arg2 = arg2
          \/ op = "remove_column" /\ last.op = "add_column" /\ last.arg = arg
          \/ op = "select" /\ last.op = "delete" /\ Some(last.arg) = arg
          \/ op = "select" /\ last.op = "insert" /\ arg \in {None, Some(<< >>)}
          \/ op \in Mutating /\ last.op = "new" /\ last.res = "ok"
          \/ op = "new" /\ last.op = "new" /\ last.res # "ok"
          \/ op \in {"is_sheet_exists", "add_sheet"} /\ last.op = "add_sheet" /\ last.arg = arg
    \/ /\ last.h # h
       /\ op \in Mutating /\ last.op \in {"insert", "add_sheet"} /\ last.res = "ok"

Ready(op, h, arg, arg2) == last.op = "idle" \/ FollowsUp(op, h, arg, arg2)

\* the record of a call: io is the I/O outcome it met, pre and prefile the
\* cache and the file before it, prev the call it follows up on, if any
Call(op, h, arg, arg2, res, out, io) ==
    [op |-> op, h |-> h, arg |-> arg, arg2 |-> arg2, res |-> res, out |-> out, io |-> io,
     pre |-> db[h].data, prefile |-> file,
     prev |-> [f \in DOMAIN NoCall |-> last[f]]]

\* one more I/O failure may be injected
MayFail(fail) == fail # "none" => failures < MaxFailures

Failed(fail) == failures' = IF fail = "none" THEN failures ELSE failures + 1

\* the worksheets the file can hold initially
RECURSIVE SeqsUpTo(_, _)
SeqsUpTo(S, n) ==
    IF n = 0 THEN {<< >>}
    ELSE LET shorter == SeqsUpTo(S, n - 1)
         IN shorter \cup {Append(t, x) : t \in {u \in shorter : Len(u) = n - 1}, x \in S}

\* header row over the columns C, then up to MaxFileData data rows, some
\* shorter and some longer than the header; or no row at all
SheetsOver(C) ==
    {WorksheetOfRows(<<hd>> \o rs) :
        hd \in SeqsUpTo(C, MaxWidth) \ {<< >>},
        rs \in SeqsUpTo(SeqsUpTo(FileVals, MaxWidth + 1) \ {<< >>}, MaxFileData)}
    \cup {NewWorksheet}

InitSheets == SheetsOver(Cols)

Init ==
    /\ \E ws \in InitSheets : file = <<[name |-> "Sheet1", ws |-> ws]>>
    /\ db = [h \in Handles |-> NoHandle]
    /\ last = Idle
    /\ failures = 0

\* (mutant) load_data's error is swallowed: a handle with an empty cache
New_HandleOnError(h, sheet_opt, fail) ==
    LET sheet == IF sheet_opt = None THEN "Sheet1" ELSE sheet_opt[1]
        err == IF fail = "read" THEN "Io" ELSE LoadErr(file, sheet)
    IN /\ Ready("new", h, sheet, << >>)
       /\ ~db[h].open
       /\ MayFail(fail)
       /\ Failed(fail)
       /\ last' = Call("new", h, sheet, << >>, err, << >>, fail)
       /\ IF err = "ok"
          THEN \E data \in LoadData(file, sheet) :
                  db' = [db EXCEPT ![h] = [open |-> TRUE, sheet_name |-> sheet, data |-> data]]
          ELSE db' = [db EXCEPT ![h] = [open |-> TRUE, sheet_name |-> sheet, data |-> << >>]]
       /\ file' = file

\* ExcelDatabase::new(file_path, sheet_name)
New(h, sheet_opt, fail) ==
    LET sheet == IF sheet_opt = None THEN "Sheet1" ELSE sheet_opt[1]
        err == IF fail = "read" THEN "Io" ELSE LoadErr(file, sheet)
    IN /\ Ready("new", h, sheet, << >>)
       /\ ~db[h].open
       /\ MayFail(fail)
       /\ Failed(fail)
       /\ last' = Call("new", h, sheet, << >>, err, << >>, fail)
       /\ IF err = "ok"
          THEN \E data \in LoadData(file, sheet) :
                  db' = [db EXCEPT ![h] = [open |-> TRUE, sheet_name |-> sheet, data |-> data]]
          ELSE db' = db
       /\ file' = file

\* (mutant) the cache is restored when the save fails
Mutate_Rollback(op, h, arg, arg2, data, fail) ==
    /\ MayFail(fail)
    /\ Failed(fail)
    /\ db' = IF SaveErr(file, db[h].sheet_name, fail) = "ok"
             THEN [db EXCEPT ![h].data = data] ELSE db
    /\ file' = SaveData(file, db[h].sheet_name, data, fail)
    /\ last' = Call(op, h, arg, arg2, SaveErr(file, db[h].sheet_name, fail), << >>, fail)

\* the tail every mutating operation shares: the cache is replaced, then
\* self.save_data()? runs on it
Mutate(op, h, arg, arg2, data, fail) ==
    /\ MayFail(fail)
    /\ Failed(fail)
    /\ db' = [db EXCEPT ![h].data = data]
    /\ file' = SaveData(file, db[h].sheet_name, data, fail)
    /\ last' = Call(op, h, arg, arg2, SaveErr(file, db[h].sheet_name, fail), << >>, fail)

\* select(query)
DoSelect(h, query) ==
    /\ Ready("select", h, query, << >>)
    /\ db[h].open
    /\ last' = Call("select", h, query, << >>, "ok", Select(db[h].data, query), "none")
    /\ UNCHANGED <<file, db, failures>>

\* get_column_value(search_column, search_value, target_column)
DoGetColumnValue(h, search_column, search_value, target_column) ==
    /\ Ready("get_column_value", h, <<search_column, search_value>>, target_column)
    /\ db[h].open
    /\ last' = Call("get_column_value", h, <<search_column, search_value>>, target_column, "ok",
                    GetColumnValue(db[h].data, search_column, search_value, target_column, 1),
                    "none")
    /\ UNCHANGED <<file, db, failures>>

\* (mutant) the row is cut down to the columns of the first cached row
Insert_Projected(h, new_row, fail) ==
    /\ Ready("insert", h, new_row, << >>)
    /\ db[h].open
    /\ Len(db[h].data) < MaxRows
    /\ Mutate("insert", h, new_row, << >>,
              Append(db[h].data,
                     IF Len(db[h].data) = 0 THEN new_row
                     ELSE SelectSeq(new_row, LAMBDA e : e[1] \in Keys(db[h].data[1]))),
              fail)

\* insert(new_row)
Insert(h, new_row, fail) ==
    /\ Ready("insert", h, new_row, << >>)
    /\ db[h].open
    /\ Len(db[h].data) < MaxRows
    /\ Mutate("insert", h, new_row, << >>, Append(db[h].data, new_row), fail)

\* update(query, update_data)
Update(h, query, update_data, fail) ==
    /\ Ready("update", h, query, update_data)
    /\ db[h].open
    /\ \E data \in UpdateRows(db[h].data, query, update_data) :
          Mutate("update", h, query, update_data, data, fail)

\* (mutant) the save is skipped when retain dropped no row
Delete_SaveIfChanged(h, query, fail) ==
    /\ Ready("delete", h, query, << >>)
    /\ db[h].open
    /\ IF DeleteRows(db[h].data, query) = db[h].data
       THEN /\ fail = "none"
            /\ last' = Call("delete", h, query, << >>, "ok", << >>, "none")
            /\ UNCHANGED <<file, db, failures>>
       ELSE Mutate("delete", h, query, << >>, DeleteRows(db[h].data, query), fail)

\* delete(query)
Delete(h, query, fail) ==
    /\ Ready("delete", h, query, << >>)
    /\ db[h].open
    /\ Mutate("delete", h, query, << >>, DeleteRows(db[h].data, query), fail)

\* add_column(column_name, default_value)
AddColumn(h, column_name, default_value, fail) ==
    /\ Ready("add_column", h, column_name, default_value)
    /\ db[h].open
    /\ \E data \in AddColumnRows(db[h].data, column_name, default_value) :
          Mutate("add_column", h, column_name, default_value, data, fail)

\* remove_column(column_name)
RemoveColumn(h, column_name, fail) ==
    /\ Ready("remove_column", h, column_name, << >>)
    /\ db[h].open
    /\ Mutate("remove_column", h, column_name, << >>,
              RemoveColumnRows(db[h].data, column_name), fail)

\* lines 326-354: the worksheet add_sheet builds from initial_data
AddSheetImage(initial_data) ==
    IF initial_data = None THEN NewWorksheet
    ELSE LET rows == initial_data[1]
         IN IF Len(rows) = 0 THEN NewWorksheet
            ELSE LET headers == KeySeq(rows[1])
                 IN WriteRows(WriteHeaders(NewWorksheet, headers, 1), headers, rows, 1)

\* (mutant) an existing sheet of that name is replaced
AddSheetErr_Overwrite(book, new_sheet_name, fail) ==
    IF fail \in {"read", "write"} THEN "Io" ELSE "ok"

\* lines 322-325, 359: the errors of add_sheet
AddSheetErr(book, new_sheet_name, fail) ==
    IF fail = "read" THEN "Io"
    ELSE IF HasSheet(book, new_sheet_name) THEN "SheetNotFound"
    ELSE IF fail = "write" THEN "Io"
    ELSE "ok"

\* add_sheet(new_sheet_name, initial_data): the cache is not involved
AddSheet(h, new_sheet_name, initial_data, fail) ==
    LET err == AddSheetErr(file, new_sheet_name, fail)
    IN /\ Ready("add_sheet", h, new_sheet_name, initial_data)
       /\ db[h].open
       /\ MayFail(fail)
       /\ Failed(fail)
       /\ file' = IF err = "ok"
                  THEN AddWorksheet(file, new_sheet_name, AddSheetImage(initial_data))
                  ELSE file
       /\ last' = Call("add_sheet", h, new_sheet_name, initial_data, err, << >>, fail)
       /\ db' = db

\* is_sheet_exists(sheet_name)
IsSheetExists(h, sheet_name) ==
    /\ Ready("is_sheet_exists", h, sheet_name, << >>)
    /\ db[h].open
    /\ last' = Call("is_sheet_exists", h, sheet_name, << >>, "ok",
                    HasSheet(file, sheet_name), "none")
    /\ UNCHANGED <<file, db, failures>>

\* the caller drops the result of the call that returned
Return ==
    /\ last.op # "idle"
    /\ last' = Idle
    /\ UNCHANGED <<file, db, failures>>

\* another program deletes a sheet of the file (save_data's has_sheet check
\* exists for this)
ExternalRemoveSheet(name) ==
    /\ last.op = "idle"
    /\ HasSheet(file, name)
    /\ file' = RemoveSheetByName(file, name)
    /\ UNCHANGED <<db, last, failures>>

\* the maps callers pass in over the columns C, and one HashMap instance of each
CallerMaps(C) == UNION {[S -> Vals] : S \in SUBSET C}

CallerRows(C) == UNION {Orderings(m) : m \in CallerMaps(C)}

Queries(C) == {CHOOSE r \in Orderings(m) : TRUE : m \in CallerMaps(C)}

OptVals == {None} \cup {Some(v) : v \in Vals}

\* the calls on handle h with arguments over the columns C and I/O outcomes F
HandleNext(h, C, F) ==
    \/ \E s \in {None} \cup {Some(n) : n \in SheetNames}, f \in F \ {"write"} : New(h, s, f)
    \/ \E q \in {None} \cup {Some(r) : r \in Queries(C)} : DoSelect(h, q)
    \/ \E sc \in C, sv \in Vals, tc \in Cols : DoGetColumnValue(h, sc, sv, tc)
    \/ \E r \in CallerRows(C), f \in F : Insert(h, r, f)
    \/ \E q \in Queries(C), p \in Queries(C), f \in F : Update(h, q, p, f)
    \/ \E q \in Queries(C), f \in F : Delete(h, q, f)
    \/ \E c \in C, d \in OptVals, f \in F : AddColumn(h, c, d, f)
    \/ \E c \in C, f \in F : RemoveColumn(h, c, f)

\* one handle on a file no other program touches, all writes succeeding
Next ==
    \/ HandleNext("A", Cols, {"none"})
    \/ Return

Spec == Init /\ [][Next]_vars

\* one handle, I/O failures and a sheet that can vanish; the file may hold
\* a second sheet
FaultCols == {"a"}

OtherSheet == WorksheetOfRows(<< <<"a">>, <<"x">> >>)

InitFault ==
    /\ \E ws \in SheetsOver(FaultCols), shape \in 1..3 :
          LET s1 == [name |-> "Sheet1", ws |-> ws]
              s2 == [name |-> "Sheet2", ws |-> OtherSheet]
          IN file = IF shape = 1 THEN <<s1>> ELSE IF shape = 2 THEN <<s1, s2>> ELSE <<s2, s1>>
    /\ db = [h \in Handles |-> NoHandle]
    /\ last = Idle
    /\ failures = 0

NextFault ==
    \/ HandleNext("A", FaultCols, Fails)
    \/ Return
    \/ \E n \in SheetNames : ExternalRemoveSheet(n)

SpecFault == InitFault /\ [][NextFault]_vars

\* two handles on the default sheet of one file, and the sheet calls; all
\* I/O succeeds
SharedSheets ==
    {WorksheetOfRows(<< <<"a">> >>), WorksheetOfRows(<< <<"a">>, <<"x">> >>)}

InitialData == {None, Some(<< >>), Some(<< <<<<"a", "x">>>> >>)}

InitShared ==
    /\ \E ws \in SharedSheets : file = <<[name |-> "Sheet1", ws |-> ws]>>
    /\ db = [h \in Handles |-> NoHandle]
    /\ last = Idle
    /\ failures = 0

SharedNext(h) ==
    \/ New(h, None, "none")
    \/ \E r \in CallerRows(FaultCols) : Insert(h, r, "none")
    \/ \E q \in Queries(FaultCols), p \in Queries(FaultCols) : Update(h, q, p, "none")
    \/ \E q \in Queries(FaultCols) : Delete(h, q, "none")
    \/ \E c \in FaultCols, d \in OptVals : AddColumn(h, c, d, "none")
    \/ \E c \in FaultCols : RemoveColumn(h, c, "none")
    \/ \E n \in SheetNames, d \in InitialData : AddSheet(h, n, d, "none")
    \/ \E n \in SheetNames : IsSheetExists(h, n)

NextShared ==
    \/ \E h \in Handles : SharedNext(h)
    \/ Return

SpecShared == InitShared /\ [][NextShared]_vars

\* ------------------------------------------------------------ properties
\* what the handle of the last call holds and where it saves
Data == db[last.h].data

Sheet == db[last.h].sheet_name

Saved == last.op \in Mutating /\ last.res = "ok"

\* a map satisfies a query map: every queried column present with that value
Satisfies(m, qm) == \A k \in DOMAIN qm : k \in DOMAIN m /\ m[k] = qm[k]

SameKeySets(rows) == \A i, j \in DOMAIN rows : Keys(rows[i]) = Keys(rows[j])

\* the first mutating call on a fresh handle saved the cache as loaded
SavedUnmodified ==
    /\ Saved
    /\ last.prev.op = "new"
    /\ RowMaps(Data) = RowMaps(last.pre)

C2_SelectExact ==
    last.op = "select" =>
        LET qm == IF last.arg = None THEN << >> ELSE RowMap(last.arg[1])
            hits == SortedSeq({i \in DOMAIN Data : Satisfies(RowMap(Data[i]), qm)})
        IN IF Len(hits) = 0
           THEN last.out = None
           ELSE /\ Len(last.out) = 1
                /\ RowMaps(last.out[1]) = [j \in DOMAIN hits |-> RowMap(Data[hits[j]])]

\* C2 witness: a two-pair query returned a row while another cached row,
\* which lacks one of the queried columns, was left out
C2_Witness ==
    /\ last.op = "select"
    /\ last.arg # None
    /\ Len(last.arg[1]) = 2
    /\ last.out # None
    /\ \E i \in DOMAIN Data : ~(Keys(last.arg[1]) \subseteq Keys(Data[i]))

\* the rows of the active sheet as a load would iterate them
Persisted == RowIter(GetSheetByName(file, Sheet))

\* C3 as stated: after a successful mutating call that leaves a non-empty
\* cache whose rows share one key set, loading the active sheet succeeds and
\* yields exactly the cache.
C3_WriteThrough_AsStated ==
    Saved /\ Len(Data) > 0 /\ SameKeySets(Data) =>
        /\ LoadErr(file, Sheet) = "ok"
        /\ LoadedMaps(file, Sheet) = RowMaps(Data)

\* C4: when the cached rows have different key sets, the persisted header is
\* exactly the first cached row's key set, every persisted data row has one
\* value per header column (the cached value, or empty text when the row
\* lacks the column), and a reload returns no column outside that key set.
C4_FirstRowHeader ==
    Saved /\ Len(Data) > 0 /\ ~SameKeySets(Data) =>
        LET K == Keys(Data[1])
        IN IF K = {}
           THEN Persisted = << >>
           ELSE /\ Len(Persisted) = Len(Data) + 1
                /\ Len(Persisted[1]) = Cardinality(K)
                /\ Range(Persisted[1]) = K
                /\ \A i \in DOMAIN Data :
                      /\ Len(Persisted[i + 1]) = Cardinality(K)
                      /\ \A j \in DOMAIN Persisted[1] :
                            Persisted[i + 1][j] =
                               IF Persisted[1][j] \in Keys(Data[i])
                               THEN Get(Data[i], Persisted[1][j]) ELSE ""
                /\ LoadErr(file, Sheet) = "ok"
                /\ \A i \in DOMAIN Data : DOMAIN LoadedMaps(file, Sheet)[i] = K

\* C4 witness: the second cached row lacks a column of the first and has a
\* column, holding text, that the first lacks
C4_Witness ==
    /\ Saved
    /\ Len(Data) = 2
    /\ Keys(Data[1]) \ Keys(Data[2]) # {}
    /\ \E k \in Keys(Data[2]) \ Keys(Data[1]) : Get(Data[2], k) = "x"

\* C5: when a successful mutating call leaves the cache empty, the persisted
\* active sheet has no row at all, and loading it fails with NoHeaders.
C5_EmptyCacheNoHeader ==
    Saved /\ Len(Data) = 0 =>
        /\ Persisted = << >>
        /\ LoadErr(file, Sheet) = "NoHeaders"

\* C5 witness: a delete that matched every cached row was saved
C5_Witness ==
    /\ Saved
    /\ last.op = "delete"
    /\ Len(last.pre) > 0
    /\ Len(Data) = 0

\* C6: the select(Q) issued right after delete(Q) returns no result, whether
\* the save inside delete succeeded or failed.
C6_DeleteComplete ==
    last.op = "select" /\ last.prev.op = "delete" => last.out = None

\* C6 witness: the delete dropped rows, its save failed, and select followed
C6_Witness ==
    /\ last.op = "select"
    /\ last.prev.op = "delete"
    /\ last.prev.res = "Io"
    /\ Len(last.prev.pre) = 2
    /\ Len(Data) < 2

\* C7: the same update(Q, P) applied again leaves the cache as the first
\* application left it and, both saves succeeding, the file as well.
C7_UpdateIdempotent ==
    last.op = "update" /\ last.prev.op = "update" =>
        /\ RowMaps(Data) = RowMaps(last.pre)
        /\ (last.res = "ok" /\ last.prev.res = "ok" => file = last.prefile)

\* C7 witness: the first application changed a row, and P overwrites a
\* column that Q tests with another value
C7_Witness ==
    /\ last.op = "update"
    /\ last.prev.op = "update"
    /\ RowMaps(last.prev.pre) # RowMaps(last.pre)
    /\ \E k \in Keys(last.arg) \cap Keys(last.arg2) : Get(last.arg, k) # Get(last.arg2, k)

\* a map without column c
Without(m, c) == [k \in DOMAIN m \ {c} |-> m[k]]

\* C8: after add_column(name, default) every cached row has name; after the
\* remove_column(name) that follows no cached row has it, and the two calls
\* leave the number of rows, their order and every other column unchanged.
C8_ColumnLifecycle ==
    /\ last.op = "add_column" => \A i \in DOMAIN Data : last.arg \in Keys(Data[i])
    /\ last.op = "remove_column" /\ last.prev.op = "add_column" =>
          /\ \A i \in DOMAIN Data : last.arg \notin Keys(Data[i])
          /\ Len(Data) = Len(last.prev.pre)
          /\ \A i \in DOMAIN Data :
                RowMap(Data[i]) = Without(RowMap(last.prev.pre[i]), last.arg)

\* C8 witness: two rows, one of which has another column, went through
\* add_column and remove_column of a column one row lacked
C8_Witness ==
    /\ last.op = "remove_column"
    /\ last.prev.op = "add_column"
    /\ Len(Data) = 2
    /\ \E i \in DOMAIN Data : Keys(Data[i]) # {}
    /\ \E i \in DOMAIN Data : last.arg \notin Keys(last.prev.pre[i])

\* m with the pairs of pm merged in
Patch(m, pm) == [k \in DOMAIN m \cup DOMAIN pm |-> IF k \in DOMAIN pm THEN pm[k] ELSE m[k]]

\* the cache a mutating call is to leave, from the cache before it
Mutated(op, pre, arg, arg2) ==
    LET ms == RowMaps(pre)
    IN CASE op = "insert" -> Append(ms, RowMap(arg))
         [] op = "update" ->
               [i \in DOMAIN ms |-> IF Satisfies(ms[i], RowMap(arg))
                                    THEN Patch(ms[i], RowMap(arg2)) ELSE ms[i]]
         [] op = "delete" -> SelectSeq(ms, LAMBDA m : ~Satisfies(m, RowMap(arg)))
         [] op = "add_column" ->
               [i \in DOMAIN ms |->
                   IF arg \in DOMAIN ms[i] THEN ms[i]
                   ELSE [k \in DOMAIN ms[i] \cup {arg} |->
                            IF k # arg THEN ms[i][k]
                            ELSE IF arg2 = None THEN "" ELSE arg2[1]]]
         [] op = "remove_column" -> [i \in DOMAIN ms |-> Without(ms[i], arg)]

\* C9: when the save of a mutating call fails, the call returns the error,
\* the cache holds the mutated state (a select of everything returns it) and
\* the file is as it was.
C9_NoRollback ==
    last.op \in Mutating /\ last.res # "ok" =>
        /\ last.res \in {"Io", "SheetNotFound"}
        /\ RowMaps(Data) = Mutated(last.op, last.pre, last.arg, last.arg2)
        /\ Select(Data, None) = IF Len(Data) = 0 THEN None ELSE Some(Data)
        /\ file = last.prefile

\* C9 witness: an insert whose save failed left a row in the cache that a
\* load of the file does not return
C9_Witness ==
    /\ last.op = "insert"
    /\ last.res = "Io"
    /\ RowMaps(Data) # RowMaps(last.pre)
    /\ LoadErr(file, Sheet) = "ok"
    /\ LoadedMaps(file, Sheet) = RowMaps(last.pre)

\* C10: when the file is read and the active sheet is no longer in it, a
\* mutating call returns SheetNotFound and leaves the file as it was.
C10_SheetVanished ==
    last.op \in Mutating /\ ~HasSheet(last.prefile, Sheet) /\ last.io # "read" =>
        /\ last.res = "SheetNotFound"
        /\ file = last.prefile

\* C10 witness: the active sheet was deleted while another sheet stayed, and
\* a call that changed the cache returned SheetNotFound
C10_Witness ==
    /\ last.op \in Mutating
    /\ last.res = "SheetNotFound"
    /\ Len(file) = 1
    /\ RowMaps(Data) # RowMaps(last.pre)

\* C11: when the file is read, new fails with SheetNotFound if the named
\* sheet is not in the file and with NoHeaders if the sheet is there and
\* holds no row; a sheet with at least one row loads.  A failed new (an I/O
\* failure included) produces no handle, a successful one a handle on the
\* named sheet.
C11_LoadErrors ==
    last.op = "new" =>
        LET present == HasSheet(last.prefile, last.arg)
            rows == IF present THEN RowIter(GetSheetByName(last.prefile, last.arg)) ELSE << >>
        IN /\ last.io # "read" =>
                 last.res = IF ~present THEN "SheetNotFound"
                            ELSE IF Len(rows) = 0 THEN "NoHeaders"
                            ELSE "ok"
           /\ last.res # "ok" => ~db[last.h].open
           /\ last.res = "ok" => db[last.h].open /\ Sheet = last.arg
           /\ file = last.prefile

\* C11 witness: new failed with SheetNotFound on a sheet that is not in the
\* file, and the new that followed on a sheet without rows failed with
\* NoHeaders
C11_Witness ==
    /\ last.op = "new"
    /\ last.res = "NoHeaders"
    /\ last.prev.op = "new"
    /\ last.prev.res = "SheetNotFound"
    /\ ~db[last.h].open

\* C12: update(query, patch) leaves the number of rows and their order as
\* they were; a row that holds every queried column with an equal value ends
\* with every patch pair set and its other columns as before; every other
\* row is as before (it gains no column of the patch).
C12_UpdateFrame ==
    last.op = "update" =>
        LET qm == RowMap(last.arg)
            pm == RowMap(last.arg2)
        IN /\ Len(Data) = Len(last.pre)
           /\ \A i \in DOMAIN last.pre :
                 LET old == RowMap(last.pre[i])
                     new == RowMap(Data[i])
                 IN IF Satisfies(old, qm)
                    THEN /\ DOMAIN new = DOMAIN old \cup DOMAIN pm
                         /\ \A k \in DOMAIN pm : new[k] = pm[k]
                         /\ \A k \in DOMAIN old \ DOMAIN pm : new[k] = old[k]
                    ELSE new = old

\* C12 witness: of two rows one matched; the patch overwrote a value of it
\* and gave it a column that neither row had
C12_Witness ==
    /\ last.op = "update"
    /\ Len(last.pre) = 2
    /\ \E i, j \in DOMAIN last.pre :
          /\ Satisfies(RowMap(last.pre[i]), RowMap(last.arg))
          /\ ~Satisfies(RowMap(last.pre[j]), RowMap(last.arg))
          /\ \E k \in Keys(last.arg2) \cap Keys(last.pre[i]) :
                Get(last.arg2, k) # Get(last.pre[i], k)
          /\ \E k \in Keys(last.arg2) : k \notin Keys(last.pre[i]) \cup Keys(last.pre[j])
          /\ Keys(Data[j]) = Keys(last.pre[j])

\* C13: select returns no result exactly when no cached row matches, and
\* never an empty sequence; with an absent or empty query it returns the
\* whole cache in order, and no result exactly when the cache is empty.
C13_SelectNone ==
    last.op = "select" =>
        LET qm == IF last.arg = None THEN << >> ELSE RowMap(last.arg[1])
        IN /\ last.out # Some(<< >>)
           /\ last.out = None <=> ~\E i \in DOMAIN Data : Satisfies(RowMap(Data[i]), qm)
           /\ DOMAIN qm = {} =>
                 /\ last.out = None <=> Len(Data) = 0
                 /\ last.out # None => last.out[1] = Data

\* C13 witness: select with an empty query returned two different rows in
\* cache order
C13_Witness ==
    /\ last.op = "select"
    /\ last.arg = Some(<< >>)
    /\ Len(Data) = 2
    /\ RowMap(Data[1]) # RowMap(Data[2])
    /\ last.out = Some(Data)

\* C14: get_column_value(search_column, search_value, target_column) returns
\* the target_column value of the first cached row whose search_column equals
\* search_value; it returns nothing when no row qualifies or when that first
\* row lacks target_column, whatever later rows hold.
C14_FirstMatchOnly ==
    last.op = "get_column_value" =>
        LET search_column == last.arg[1]
            search_value == last.arg[2]
            target_column == last.arg2
            hits == {i \in DOMAIN Data :
                        /\ search_column \in Keys(Data[i])
                        /\ RowMap(Data[i])[search_column] = search_value}
        IN IF hits = {}
           THEN last.out = None
           ELSE LET first == CHOOSE i \in hits : \A j \in hits : i <= j
                IN IF target_column \in Keys(Data[first])
                   THEN last.out = Some(RowMap(Data[first])[target_column])
                   ELSE last.out = None

\* C14 witness: the first qualifying row lacks target_column, the second
\* qualifying row has it, and nothing was returned
C14_Witness ==
    /\ last.op = "get_column_value"
    /\ Len(Data) = 2
    /\ \A i \in DOMAIN Data :
          last.arg[1] \in Keys(Data[i]) /\ Get(Data[i], last.arg[1]) = last.arg[2]
    /\ last.arg2 \notin Keys(Data[1])
    /\ last.arg2 \in Keys(Data[2])
    /\ last.out = None

\* C15: add_sheet(name, rows) on a file that holds a sheet called name
\* returns SheetNotFound and leaves the file as it was; on a file without
\* such a sheet it succeeds, the file then holds the sheet after the sheets
\* it had, and the is_sheet_exists(name) that follows returns true.
C15_AddSheetExisting ==
    /\ last.op = "add_sheet" =>
          IF HasSheet(last.prefile, last.arg)
          THEN last.res = "SheetNotFound" /\ file = last.prefile
          ELSE /\ last.res = "ok"
               /\ HasSheet(file, last.arg)
               /\ RemoveSheetByName(file, last.arg) = last.prefile
    /\ last.op = "is_sheet_exists" /\ last.prev.op = "add_sheet" /\ last.prev.res = "ok" =>
          last.out = TRUE

\* C15 witness: add_sheet created a sheet with a row, the add_sheet of the
\* same name that followed, with other rows, was refused, and the sheet
\* holds what the first call wrote
C15_Witness ==
    /\ last.op = "add_sheet"
    /\ last.res = "SheetNotFound"
    /\ last.prev.op = "add_sheet"
    /\ last.prev.res = "ok"
    /\ last.prev.arg2 # last.arg2
    /\ AddSheetImage(last.prev.arg2) # NewWorksheet
    /\ GetSheetByName(file, last.arg) = AddSheetImage(last.prev.arg2)

\* C16: insert(row) leaves the cache as the rows it held, unchanged and in
\* their order, followed by the row as passed in, whatever its columns; the
\* select with an absent or empty query that follows returns one row more
\* than the cache held, the new row last.
C16_InsertAppends ==
    /\ last.op = "insert" =>
          /\ Len(Data) = Len(last.pre) + 1
          /\ SubSeq(Data, 1, Len(last.pre)) = last.pre
          /\ Data[Len(Data)] = last.arg
    /\ last.op = "select" /\ last.prev.op = "insert" =>
          /\ last.out # None
          /\ Len(last.out[1]) = Len(last.prev.pre) + 1
          /\ SubSeq(last.out[1], 1, Len(last.prev.pre)) = last.prev.pre
          /\ last.out[1][Len(last.out[1])] = last.prev.arg

\* C16 witness: the inserted row has a column the cached row lacks and lacks
\* a column it has, and the select that followed returned it last
C16_Witness ==
    /\ last.op = "select"
    /\ last.prev.op = "insert"
    /\ Len(last.prev.pre) = 1
    /\ Keys(last.prev.arg) \ Keys(last.prev.pre[1]) # {}
    /\ Keys(last.prev.pre[1]) \ Keys(last.prev.arg) # {}
    /\ last.out = Some(Append(last.prev.pre, last.prev.arg))

\* a successful mutating call directly after another handle's successful
\* insert into the same sheet
AfterOthersInsert ==
    /\ Saved
    /\ last.prev.op = "insert"
    /\ last.prev.res = "ok"
    /\ last.prev.h # last.h
    /\ db[last.prev.h].sheet_name = Sheet

\* C17: when handle B's mutating call succeeds right after handle A's
\* insert into the same sheet succeeded, the persisted sheet is the image of
\* B's cache alone: the file holds exactly one sheet of that name, and what
\* A wrote is not merged in.
C17_LastWriterWins ==
    AfterOthersInsert =>
        /\ Cardinality({i \in DOMAIN file : file[i].name = Sheet}) = 1
        /\ GetSheetByName(file, Sheet) = SheetImage(Data)

\* C17 witness (the lost update): A's inserted row was in the file, B then
\* inserted a row, and the file loads without A's row while A's cache
\* still holds it
C17_Witness ==
    /\ AfterOthersInsert
    /\ last.op = "insert"
    /\ LoadErr(last.prefile, Sheet) = "ok"
    /\ RowMap(last.prev.arg) \in Range(LoadedMaps(last.prefile, Sheet))
    /\ LoadErr(file, Sheet) = "ok"
    /\ RowMap(last.prev.arg) \notin Range(LoadedMaps(file, Sheet))
    /\ RowMap(last.prev.arg) \in Range(RowMaps(db[last.prev.h].data))

\* an update or delete whose query no cached row matched returned Ok
SavedWithoutMatch ==
    /\ last.op \in {"update", "delete"}
    /\ last.res = "ok"
    /\ \A i \in DOMAIN last.pre : ~Satisfies(RowMap(last.pre[i]), RowMap(last.arg))

\* C18: when update or delete succeeds although no cached row matches the
\* query, the cache is as it was and the persisted active sheet is the image
\* of that cache, whatever the sheet held on disk before the call.
C18_SaveWithoutMatch ==
    SavedWithoutMatch =>
        /\ Data = last.pre
        /\ GetSheetByName(file, Sheet) = SheetImage(Data)

\* C18 witness: a delete that matched nothing replaced a sheet that held a
\* row another handle had just inserted; the sheet loads to other rows than
\* before the call
C18_Witness ==
    /\ SavedWithoutMatch
    /\ last.op = "delete"
    /\ Len(last.pre) > 0
    /\ last.prev.op = "insert"
    /\ last.prev.h # last.h
    /\ LoadErr(last.prefile, Sheet) = "ok"
    /\ LoadErr(file, Sheet) = "ok"
    /\ LoadedMaps(file, Sheet) # LoadedMaps(last.prefile, Sheet)

\* C19: after a successful new, the cache has one row per sheet row below
\* the first, and every cached row has exactly the header names of the first
\* sheet row as its keys: a header beyond the end of the data row maps to
\* empty text, a header within it to the cell under it (the last such
\* header, when a name repeats), and cells beyond the header row are not
\* loaded.
C19_LoadedKeySets ==
    last.op = "new" /\ last.res = "ok" =>
        LET rows == RowIter(GetSheetByName(last.prefile, last.arg))
            headers == rows[1]
        IN /\ Len(Data) = Len(rows) - 1
           /\ \A i \in DOMAIN Data :
                 LET cells == rows[i + 1]
                 IN /\ Keys(Data[i]) = {FromU(headers[j]) : j \in DOMAIN headers}
                    /\ Len(Data[i]) <= Len(headers)
                    /\ \A j \in DOMAIN headers :
                          IF j > Len(cells)
                          THEN Get(Data[i], FromU(headers[j])) = ""
                          ELSE (\A l \in DOMAIN headers : l > j => headers[l] # headers[j])
                                  => Get(Data[i], FromU(headers[j])) = FromU(cells[j])

\* C19 witness: a sheet row with one cell under a header row of two names
\* was loaded as a row with both names, the second with empty text
C19_Witness ==
    /\ last.op = "new"
    /\ last.res = "ok"
    /\ Len(Data) = 1
    /\ LET rows == RowIter(GetSheetByName(last.prefile, last.arg))
       IN /\ Len(rows[1]) = 2
          /\ rows[1][1] # rows[1][2]
          /\ Len(rows[2]) = 1
          /\ rows[2][1] = "x"
          /\ Keys(Data[1]) = {rows[1][1], rows[1][2]}
          /\ Get(Data[1], rows[1][1]) = "x"
          /\ Get(Data[1], rows[1][2]) = ""

\* C20: add_column(name, default) leaves the rows in place; a row that
\* lacked name has it with default (empty text when no default is given), a
\* row that had name keeps its value, and every other column of every row is
\* as before.
C20_AddColumnFrame ==
    last.op = "add_column" =>
        LET name == last.arg
            default == IF last.arg2 = None THEN "" ELSE last.arg2[1]
        IN /\ Len(Data) = Len(last.pre)
           /\ \A i \in DOMAIN last.pre :
                 LET old == RowMap(last.pre[i])
                     new == RowMap(Data[i])
                 IN /\ DOMAIN new = DOMAIN old \cup {name}
                    /\ new[name] = IF name \in DOMAIN old THEN old[name] ELSE default
                    /\ \A k \in DOMAIN old \ {name} : new[k] = old[k]

\* C20 witness: one row had the column with a value other than the default
\* given, the other row lacked it and had another column
C20_Witness ==
    /\ last.op = "add_column"
    /\ last.arg2 # None
    /\ Len(last.pre) = 2
    /\ \E i, j \in DOMAIN last.pre :
          /\ last.arg \in Keys(last.pre[i])
          /\ Get(last.pre[i], last.arg) # last.arg2[1]
          /\ Get(Data[i], last.arg) = Get(last.pre[i], last.arg)
          /\ last.arg \notin Keys(last.pre[j])
          /\ Keys(last.pre[j]) # {}
          /\ Get(Data[j], last.arg) = last.arg2[1]

\* the sheets of a book other than the one called name, in file order
OtherSheets(book, name) == RemoveSheetByName(book, name)

\* C21: the save of a successful mutating call replaces only the active
\* sheet: every other sheet the file held when the call began, one added
\* after the handle was constructed included, is still there with the same
\* contents, and no other sheet has appeared.
C21_OtherSheetsKept ==
    Saved =>
        /\ OtherSheets(file, Sheet) = OtherSheets(last.prefile, Sheet)
        /\ \A i \in DOMAIN last.prefile :
              last.prefile[i].name # Sheet =>
                 /\ HasSheet(file, last.prefile[i].name)
                 /\ GetSheetByName(file, last.prefile[i].name) = last.prefile[i].ws

\* C21 witness: another handle added a sheet with a row after this handle
\* was constructed; this handle's call then rewrote its own sheet with other
\* contents, and the added sheet holds what add_sheet wrote
C21_Witness ==
    /\ Saved
    /\ last.prev.op = "add_sheet"
    /\ last.prev.res = "ok"
    /\ last.prev.h # last.h
    /\ last.prev.arg # Sheet
    /\ AddSheetImage(last.prev.arg2) # NewWorksheet
    /\ GetSheetByName(file, Sheet) # GetSheetByName(last.prefile, Sheet)
    /\ GetSheetByName(file, last.prev.arg) = AddSheetImage(last.prev.arg2)
====
